---------------------------- MODULE Spec2Model ----------------------------
(***************************************************************************)
(* A model of app.py, the Chennai traffic analyser: the synthetic incident *)
(* generator, the location filter, the overview statistics and top-10      *)
(* ranking, the question/answer path through the text-generation service,  *)
(* and the synthetic history series and prediction.                        *)
(*                                                                         *)
(* Strings that the program matches on (location names) are sequences of   *)
(* one-character strings, so that case folding and substring search are    *)
(* computed.  A pandas DataFrame is a sequence of rows; each row carries   *)
(* its index label (idx), which filtering and ranking keep.                *)
(***************************************************************************)
EXTENDS Integers, Sequences, FiniteSets, TLC

VARIABLES
    pc,                    \* position of the script / of the running function
    args,                  \* positional arguments of generate_traffic_incidents
    num_incidents,         \* its parameter, after default binding
    incidents,             \* its local list
    df_traffic,            \* the batch (a DataFrame)
    df_generated,          \* the DataFrame object returned by the generator
    selected_location,     \* st.selectbox
    locals,                \* names bound in the script's namespace this run
    total_incidents,
    avg_delay,
    total_affected_length,
    type_counts,
    top_affected,
    st_out,                \* what the script has written to the page, in order
    user_question,         \* st.text_input
    prompt,
    answer,
    bedrock,               \* the client: calls made, and what the service will do
    exc,                   \* the exception that ended the script, if any
    date_range,            \* st.date_input (range)
    hist_df,
    prediction

genVars == <<args, num_incidents, incidents, df_generated>>
overviewVars == <<locals, total_incidents, avg_delay, total_affected_length,
                  type_counts, top_affected>>
qaVars == <<user_question, prompt, answer, bedrock>>
histVars == <<date_range, hist_df, prediction>>
vars == <<pc, genVars, df_traffic, selected_location, overviewVars, st_out,
          qaVars, exc, histVars>>

---------------------------------------------------------------------------
(* Bounds of the model.                                                    *)

\* Largest explicit count passed to generate_traffic_incidents.
MaxIncidents == 2

\* Rows of a batch whose random draws are enumerated; the draws of later
\* rows repeat with this period (a pseudo-random stream of short period).
RandomPeriod == 1

---------------------------------------------------------------------------
(* Program constants.                                                      *)

chennai_locations == <<
    <<"T"," ","N","a","g","a","r">>,
    <<"A","d","y","a","r">>,
    <<"A","n","n","a"," ","N","a","g","a","r">>,
    <<"V","e","l","a","c","h","e","r","y">>,
    <<"M","y","l","a","p","o","r","e">>,
    <<"P","o","r","u","r">>,
    <<"T","a","m","b","a","r","a","m">>,
    <<"C","h","r","o","m","e","p","e","t">>,
    <<"G","u","i","n","d","y">>,
    <<"E","g","m","o","r","e">>,
    <<"N","u","n","g","a","m","b","a","k","k","a","m">>,
    <<"V","a","d","a","p","a","l","a","n","i">>,
    <<"S","h","o","l","i","n","g","a","n","a","l","l","u","r">>,
    <<"P","a","l","l","a","v","a","r","a","m">>,
    <<"P","e","r","u","n","g","u","d","i">>,
    <<"R","o","y","a","p","e","t","t","a","h">>,
    <<"K","i","l","p","a","u","k">>,
    <<"B","e","s","a","n","t"," ","N","a","g","a","r">>,
    <<"A","m","b","a","t","t","u","r">>,
    <<"K","o","d","a","m","b","a","k","k","a","m">>,
    <<"R","a","m","a","p","u","r","a","m">> >>

incident_types == <<"Congestion", "Accident", "Construction", "Event">>

\* def generate_traffic_incidents(num_incidents=50)
default_num_incidents == 50

delay_low == 60
delay_high == 1800
length_low == 100
length_high == 5000

Range(s) == {s[i] : i \in DOMAIN s}

---------------------------------------------------------------------------
(* The random source.  A draw is a nondeterministic choice; for a range of *)
(* integers the model draws the two extremes of the range.                 *)

\* np.random.randint(low, high): an integer of the half-open range.
randint_inclusive(low, high) == {low, high}
randint(low, high) == {low, high - 1}

\* np.random.choice(a): an element of a; the model draws the first or the
\* last one.
choice(a) == {a[1], a[Len(a)]}

\* One iteration's dict, lines 40-46.
incident_draws ==
    [type   : choice(incident_types),
     from   : choice(chennai_locations),
     to     : choice(chennai_locations),
     delay  : randint(delay_low, delay_high),
     length : randint(length_low, length_high)]

\* The dicts the next iteration can build, given the list so far.
next_incidents(list) ==
    IF Len(list) < RandomPeriod
    THEN incident_draws
    ELSE {list[Len(list) + 1 - RandomPeriod]}

\* pd.DataFrame(list_of_dicts): one row per dict, in order, labelled by a
\* RangeIndex 0..n-1.
DataFrame(list) ==
    [i \in 1..Len(list) |->
        [idx |-> i - 1, type |-> list[i].type, from |-> list[i].from,
         to |-> list[i].to, delay |-> list[i].delay,
         length |-> list[i].length]]

---------------------------------------------------------------------------
(* generate_traffic_incidents, lines 37-48.                                *)

\* The call: the parameter takes the argument, or the default.
bind_num_incidents(a) == IF Len(a) = 0 THEN default_num_incidents ELSE a[1]

\* for _ in range(num_incidents): one more iteration is due.
loop_continues(list, n) == Len(list) < n

GenerateIncident ==
    /\ pc = "generate"
    /\ loop_continues(incidents, num_incidents)
    /\ \E incident \in next_incidents(incidents) :
          incidents' = Append(incidents, incident)
    /\ UNCHANGED <<pc, args, num_incidents, df_generated, df_traffic,
                   selected_location, overviewVars, st_out, qaVars, exc,
                   histVars>>

ReturnBatch ==
    /\ pc = "generate"
    /\ ~loop_continues(incidents, num_incidents)
    /\ df_generated' = DataFrame(incidents)
    /\ df_traffic' = DataFrame(incidents)
    /\ pc' = "select"
    /\ UNCHANGED <<args, num_incidents, incidents, selected_location,
                   overviewVars, st_out, qaVars, exc, histVars>>

---------------------------------------------------------------------------
(* Text.  A string is a sequence of fragments; a location name is spelled  *)
(* character by character.                                                 *)

All == <<"A","l","l">>

lower(c) ==
    CASE c = "A" -> "a" [] c = "B" -> "b" [] c = "C" -> "c" [] c = "E" -> "e"
      [] c = "G" -> "g" [] c = "K" -> "k" [] c = "M" -> "m" [] c = "N" -> "n"
      [] c = "P" -> "p" [] c = "R" -> "r" [] c = "S" -> "s" [] c = "T" -> "t"
      [] c = "V" -> "v" [] OTHER -> c

\* Series.str.contains(pat, case=False, na=False) on one value: pat occurs
\* in s at some offset, letters compared without regard to case.  pat is
\* read as a regular expression; the names of chennai_locations hold only
\* letters and spaces, which match themselves.
str_contains_case_sensitive(s, pat) ==
    \E off \in 0..(Len(s) - Len(pat)) :
        \A j \in 1..Len(pat) : s[off + j] = pat[j]
str_contains(s, pat) ==
    \E off \in 0..(Len(s) - Len(pat)) :
        \A j \in 1..Len(pat) : lower(s[off + j]) = lower(pat[j])

\* str(n) of an integer.
str(n) == <<ToString(n)>>

\* f"{x:.2f}" of x = num/den: x to the nearest hundredth; 0/0 is NaN.
fmt_2f(num, den) ==
    IF den = 0 THEN <<"nan">> ELSE
    LET neg == num < 0
        a == IF neg THEN -num ELSE num
        h == (200 * a + den) \div (2 * den)
        c == h % 100
    IN  (IF neg /\ h > 0 THEN <<"-">> ELSE <<>>)
        \o <<ToString(h \div 100), ".", ToString(c \div 10), ToString(c % 10)>>

\* sep.join(texts)
RECURSIVE join(_, _)
join(sep, texts) ==
    IF Len(texts) = 0 THEN <<>>
    ELSE IF Len(texts) = 1 THEN texts[1]
    ELSE texts[1] \o sep \o join(sep, Tail(texts))

\* datetime.now().strftime("%B %d, %Y")
today_date == <<"November 05, 2026">>

---------------------------------------------------------------------------
(* The location filter, lines 93-98.                                       *)

select_options == <<All>> \o chennai_locations

\* The boolean mask of line 97-98 for one row.
mask(row, location) ==
    str_contains(row.from, location) \/ str_contains(row.to, location)

\* df[mask]: the rows whose mask is true, in order, index labels kept.
filter_location(df, location) ==
    LET keep(row) == mask(row, location) IN SelectSeq(df, keep)

SelectLocation ==
    /\ pc = "select"
    /\ \E location \in Range(select_options) : selected_location' = location
    /\ pc' = "filter"
    /\ UNCHANGED <<genVars, df_traffic, overviewVars, st_out, qaVars, exc,
                   histVars>>

FilterLocation ==
    /\ pc = "filter"
    /\ df_traffic' = IF selected_location # All
                     THEN filter_location(df_traffic, selected_location)
                     ELSE df_traffic
    /\ pc' = "overview"
    /\ UNCHANGED <<genVars, selected_location, overviewVars, st_out, qaVars,
                   exc, histVars>>

---------------------------------------------------------------------------
(* The traffic overview, lines 100-129.                                    *)

RECURSIVE column_sum(_, _)
column_sum(df, col) ==
    IF Len(df) = 0 THEN 0 ELSE df[1][col] + column_sum(Tail(df), col)

\* Series.mean(): the sum over the count, kept as a fraction (0/0, NaN,
\* for an empty column).
mean_over_generated(df, col) ==
    [num |-> column_sum(df, col), den |-> num_incidents]
mean(df, col) == [num |-> column_sum(df, col), den |-> Len(df)]

\* Series.value_counts(): the count of each value that occurs.
value_counts(df, col) ==
    [v \in {df[i][col] : i \in 1..Len(df)} |->
        Cardinality({i \in 1..Len(df) : df[i][col] = v})]

\* DataFrame.nlargest(n, col), keep='first': the rows in descending order
\* of col, rows of equal value in their order in df, cut to the first n.
precedes_keep_last(df, col, j, i) ==
    \/ df[j][col] > df[i][col]
    \/ df[j][col] = df[i][col] /\ j > i
precedes(df, col, j, i) ==
    \/ df[j][col] > df[i][col]
    \/ df[j][col] = df[i][col] /\ j < i

nlargest(n, df, col) ==
    LET rank(i) == Cardinality({j \in 1..Len(df) : precedes(df, col, j, i)})
        m == IF n < Len(df) THEN n ELSE Len(df)
    IN  [k \in 1..m |-> df[CHOOSE i \in 1..Len(df) : rank(i) = k - 1]]

top_n == 10

\* Lines 125-126: the delay and length columns become display text.
delay_text(x) == str(x) \o <<" seconds (">> \o fmt_2f(x, 60) \o <<" minutes)">>
length_text(x) == str(x) \o <<" meters (">> \o fmt_2f(x, 1000) \o <<" km)">>

format_top(df) ==
    [k \in 1..Len(df) |->
        [idx |-> df[k].idx, from |-> df[k].from, to |-> df[k].to,
         delay |-> delay_text(df[k].delay),
         length |-> length_text(df[k].length), type |-> df[k].type]]

\* Lines 107-109, over the statistics just computed.
overview_lines(n, avg, total) ==
    << [widget |-> "write", body |-> <<"Total incidents: ">> \o str(n)],
       [widget |-> "write",
        body |-> <<"Average delay: ">> \o fmt_2f(avg.num, avg.den)
                 \o <<" seconds (">> \o fmt_2f(avg.num, avg.den * 60)
                 \o <<" minutes)">>],
       [widget |-> "write",
        body |-> <<"Total affected road length: ">> \o fmt_2f(total, 1)
                 \o <<" meters (">> \o fmt_2f(total, 1000) \o <<" km)">>] >>

\* if not df_traffic.empty
has_data_always(df) == TRUE
has_data(df) == Len(df) > 0

Overview ==
    /\ pc = "overview"
    /\ IF has_data(df_traffic)
       THEN /\ total_incidents' = Len(df_traffic)
            /\ avg_delay' = mean(df_traffic, "delay")
            /\ total_affected_length' = column_sum(df_traffic, "length")
            /\ type_counts' = value_counts(df_traffic, "type")
            /\ top_affected' = format_top(nlargest(top_n, df_traffic, "delay"))
            /\ locals' = locals \cup {"total_incidents", "avg_delay",
                                      "total_affected_length", "type_counts",
                                      "top_affected"}
            /\ st_out' = st_out
                 \o overview_lines(total_incidents', avg_delay',
                                   total_affected_length')
                 \o << [widget |-> "plotly_chart", body |-> type_counts'],
                       [widget |-> "table", body |-> top_affected'] >>
       ELSE /\ st_out' = Append(st_out,
                 [widget |-> "warning",
                  body |-> <<"No traffic incident data available for ">>
                           \o selected_location \o <<".">>])
            /\ UNCHANGED overviewVars
    /\ pc' = "question"
    /\ UNCHANGED <<genVars, df_traffic, selected_location, qaVars, exc,
                   histVars>>

---------------------------------------------------------------------------
(* Question and answer, lines 131-149, and get_traffic_insights, 51-70.    *)

\* Line 138: {total_incidents if 'total_incidents' in locals() else 'N/A'}
total_incidents_field ==
    IF "total_incidents" \in locals THEN str(total_incidents) ELSE <<"N/A">>

\* Line 141.
top_affected_field ==
    IF "top_affected" \in locals /\ Len(top_affected) > 0
    THEN join(<<", ">>, [k \in 1..Len(top_affected) |-> top_affected[k].from])
    ELSE <<"No data available">>

\* The names the f-string of lines 136-145 reads outside any conditional
\* expression: on lines 139 and 140 the text "if ... in locals() else 'N/A'"
\* stands outside the braces, and is part of the literal.
prompt_reads == {"avg_delay", "total_affected_length"}

prompt_raises == ~(prompt_reads \subseteq locals)

prompt_text ==
    <<"Analyze the following traffic incident data for ">>
    \o selected_location \o <<" in Chennai on ">> \o today_date
    \o <<" and answer the user's question:\n\n    Total traffic incidents: ">>
    \o total_incidents_field
    \o <<"\n    Average delay: ">> \o fmt_2f(avg_delay.num, avg_delay.den)
    \o <<" seconds (">> \o fmt_2f(avg_delay.num, avg_delay.den * 60)
    \o <<" minutes) if 'avg_delay' in locals() else 'N/A'",
         "\n    Total affected road length: ">>
    \o fmt_2f(total_affected_length, 1)
    \o <<" meters (">> \o fmt_2f(total_affected_length, 1000)
    \o <<" km) if 'total_affected_length' in locals() else 'N/A'",
         "\n    Top affected areas: ">>
    \o top_affected_field
    \o <<"\n\n    User question: ", user_question,
         "\n\n    Provide a detailed and informative answer based on the given data and your knowledge about traffic patterns and Chennai's geography, focusing on ">>
    \o selected_location \o <<" if specified.">>

\* What the user can type into st.text_input.
Questions == {"", "Which area has the longest delay?", "Is T Nagar congested now?"}

AskQuestion ==
    /\ pc = "question"
    /\ \E q \in Questions : user_question' = q
    /\ pc' = IF user_question' # "" THEN "prompt" ELSE "history"
    /\ UNCHANGED <<genVars, df_traffic, selected_location, overviewVars,
                   st_out, prompt, answer, bedrock, exc, histVars>>

BuildPrompt ==
    /\ pc = "prompt"
    /\ IF prompt_raises
       THEN /\ exc' = "NameError"
            /\ pc' = "crashed"
            /\ UNCHANGED prompt
       ELSE /\ prompt' = prompt_text
            /\ pc' = "invoke"
            /\ UNCHANGED exc
    /\ UNCHANGED <<genVars, df_traffic, selected_location, overviewVars,
                   st_out, user_question, answer, bedrock, histVars>>

\* Exceptions the client, the body stream or the JSON parser can raise.
InvokeErrors ==
    {[type |-> "ClientError", msg |-> "An error occurred (AccessDeniedException) when calling the InvokeModel operation"],
     [type |-> "EndpointConnectionError", msg |-> "Could not connect to the endpoint URL"]}
\* (the TypeError: `'generation' in response_body` on a body that parsed
\* to a number, line 64)
ReadErrors ==
    {[type |-> "JSONDecodeError", msg |-> "Expecting value: line 1 column 1 (char 0)"],
     [type |-> "TypeError", msg |-> "argument of type 'int' is not iterable"]}
StripError ==
    [type |-> "AttributeError", msg |-> "'NoneType' object has no attribute 'strip'"]

\* Response bodies after json.loads: a mapping from keys to values; a
\* value is a string (str = TRUE, with its text) or null.
ResponseBodies ==
    {[generation |-> [str |-> TRUE, text |-> <<" ", "\n", "Expect long delays.", " ", "\n">>]],
     [generation |-> [str |-> TRUE, text |-> <<"Roads are clear.">>]],
     [generation |-> [str |-> FALSE, text |-> <<"null">>]],
     [message |-> [str |-> TRUE, text |-> <<"Too many requests">>]]}

\* What one call of bedrock.invoke_model leads to.
Outcomes ==
    {[kind |-> "invoke_raises", e |-> e, body |-> <<>>] : e \in InvokeErrors}
    \cup {[kind |-> "read_raises", e |-> e, body |-> <<>>] : e \in ReadErrors}
    \cup {[kind |-> "body", e |-> StripError, body |-> b] : b \in ResponseBodies}

is_space(c) == c \in {" ", "\n", "\t"}

\* str.strip(): leading and trailing whitespace removed.
RECURSIVE lstrip(_)
lstrip(t) == IF Len(t) > 0 /\ is_space(t[1]) THEN lstrip(Tail(t)) ELSE t
RECURSIVE rstrip(_)
rstrip(t) ==
    IF Len(t) > 0 /\ is_space(t[Len(t)])
    THEN rstrip(SubSeq(t, 1, Len(t) - 1)) ELSE t
strip(t) == rstrip(lstrip(t))

\* json.dumps(mapping, indent=2) of a mapping of one key.
json_dumps(body) ==
    LET k == CHOOSE key \in DOMAIN body : TRUE
    IN  <<"{\n  \"", k, "\": ">>
        \o (IF body[k].str THEN <<"\"">> \o body[k].text \o <<"\"">>
            ELSE body[k].text)
        \o <<"\n}">>

\* Line 70: the except clause's return value.
error_text_message_only(e) == <<"Error getting traffic insights: ", e.msg>>
error_text(e) ==
    <<"Error getting traffic insights: ", e.msg, "\nFull error: ",
      e.type, "('", e.msg, "')">>

\* Lines 61-68 on a response whose body parsed to `body`.
read_response(body) ==
    IF "generation" \in DOMAIN body
    THEN IF body.generation.str
         THEN strip(body.generation.text)
         ELSE error_text(StripError)
    ELSE <<"Unexpected response structure. Full response: ">>
         \o json_dumps(body)

\* Line 60, inside the try: the one call of the service.  When it raises,
\* the except clause returns at once.

InvokeModel ==
    /\ pc = "invoke"
    /\ \E o \in Outcomes :
          /\ bedrock' = [calls |-> bedrock.calls + 1, outcome |-> o]
          /\ IF o.kind = "invoke_raises"
             THEN answer' = error_text(o.e) /\ pc' = "write"
             ELSE pc' = "read" /\ UNCHANGED answer
    /\ UNCHANGED <<genVars, df_traffic, selected_location, overviewVars,
                   st_out, user_question, prompt, exc, histVars>>

\* Lines 61-70: read and parse the body, and return.
ReadResponse ==
    /\ pc = "read"
    /\ answer' = IF bedrock.outcome.kind = "read_raises"
                 THEN error_text(bedrock.outcome.e)
                 ELSE read_response(bedrock.outcome.body)
    /\ pc' = "write"
    /\ UNCHANGED <<genVars, df_traffic, selected_location, overviewVars,
                   st_out, user_question, prompt, bedrock, exc, histVars>>

\* Line 149.
WriteAnswer ==
    /\ pc = "write"
    /\ st_out' = Append(st_out, [widget |-> "write", body |-> answer])
    /\ pc' = "history"
    /\ UNCHANGED <<genVars, df_traffic, selected_location, overviewVars,
                   qaVars, exc, histVars>>

---------------------------------------------------------------------------
(* Historical analysis and prediction, lines 151-192.  A date is a day     *)
(* number.                                                                 *)

\* Latest day the date inputs offer.
MaxDay == 4

Days == 0..MaxDay

\* st.date_input with a two-date default: a pair of dates, or a single
\* date while the user has picked only the start of the range.
DateInputs == {<<d>> : d \in Days} \cup (Days \X Days)

\* pd.date_range(start=, end=): the days from start to end inclusive, one
\* per day; none when end precedes start.
date_range_skips_last(start, end) == [i \in 1..(end - start) |-> start + i - 1]
date_range_either_order(start, end) ==
    IF end < start THEN [i \in 1..(start - end + 1) |-> end + i - 1]
    ELSE [i \in 1..(end - start + 1) |-> start + i - 1]
pd_date_range(start, end) == [i \in 1..(end - start + 1) |-> start + i - 1]

\* np.random.normal(loc, scale): a real number; the model draws one value
\* far below the mean (negative for the history's parameters) and one above.
normal(loc, scale) == {loc - 4 * scale, loc + scale}

hist_incidents_low == 10
hist_incidents_high == 100
hist_delay_loc == 300
hist_delay_scale == 100
pred_incidents_low == 5
pred_incidents_high == 50
pred_delay_loc == 300
pred_delay_scale == 50

\* Lines 162-166: the frame of the three columns.
hist_frame(dates, incs, delays) ==
    [i \in 1..Len(dates) |->
        [date |-> dates[i], incidents |-> incs[i], avg_delay |-> delays[i]]]

SelectDateRange ==
    /\ pc = "history"
    /\ \E r \in DateInputs : date_range' = r
    /\ pc' = "hist_generate"
    /\ UNCHANGED <<genVars, df_traffic, selected_location, overviewVars,
                   st_out, qaVars, exc, hist_df, prediction>>

\* Lines 158-180.
GenerateHistory ==
    /\ pc = "hist_generate"
    /\ IF Len(date_range) < 2
       THEN /\ exc' = "IndexError"
            /\ pc' = "crashed"
            /\ UNCHANGED <<hist_df, st_out>>
       ELSE LET historical_dates == pd_date_range(date_range[1], date_range[2])
                size == Len(historical_dates)
            IN  /\ \E historical_incidents \in
                         [1..size -> randint(hist_incidents_low, hist_incidents_high)],
                      historical_delays \in
                         [1..size -> normal(hist_delay_loc, hist_delay_scale)] :
                      hist_df' = hist_frame(historical_dates,
                                            historical_incidents,
                                            historical_delays)
                /\ st_out' = Append(st_out, [widget |-> "plotly_chart",
                                             body |-> hist_df'])
                /\ pc' = "predict"
                /\ UNCHANGED exc
    /\ UNCHANGED <<genVars, df_traffic, selected_location, overviewVars,
                   qaVars, date_range, prediction>>

\* Lines 183-192.
Predict ==
    /\ pc = "predict"
    /\ \E prediction_date \in Days,
          predicted_incidents \in randint(pred_incidents_low, pred_incidents_high),
          predicted_delay \in normal(pred_delay_loc, pred_delay_scale) :
          /\ prediction' = [date |-> prediction_date,
                            incidents |-> predicted_incidents,
                            delay |-> predicted_delay]
          /\ st_out' = st_out \o
               << [widget |-> "write",
                   body |-> <<"Predicted number of incidents: ">>
                            \o str(predicted_incidents)],
                  [widget |-> "write",
                   body |-> <<"Predicted average delay: ">>
                            \o fmt_2f(predicted_delay, 1) \o <<" seconds (">>
                            \o fmt_2f(predicted_delay, 60) \o <<" minutes)">>] >>
    /\ pc' = "done"
    /\ UNCHANGED <<genVars, df_traffic, selected_location, overviewVars,
                   qaVars, exc, date_range, hist_df>>

---------------------------------------------------------------------------
(* Values of the variables a specification does not use.                   *)

NoOverview ==
    /\ locals = {}
    /\ total_incidents = 0
    /\ avg_delay = [num |-> 0, den |-> 1]
    /\ total_affected_length = 0
    /\ type_counts = <<>>
    /\ top_affected = <<>>

NoQA ==
    /\ user_question = ""
    /\ prompt = <<>>
    /\ answer = <<>>
    /\ bedrock = [calls |-> 0, outcome |-> "generation"]

NoHistory ==
    /\ date_range = <<>>
    /\ hist_df = <<>>
    /\ prediction = <<>>

---------------------------------------------------------------------------
(* The generator alone: every call generate_traffic_incidents(n) with      *)
(* n in 0..MaxIncidents, and the call without argument.                    *)

CallArgs == {<<>>} \cup {<<n>> : n \in 0..MaxIncidents}

InitGenerate ==
    /\ pc = "generate"
    /\ args \in CallArgs
    /\ num_incidents = bind_num_incidents(args)
    /\ incidents = <<>>
    /\ df_generated = <<>>
    /\ df_traffic = <<>>
    /\ selected_location = <<>>
    /\ NoOverview
    /\ st_out = <<>>
    /\ NoQA
    /\ exc = "none"
    /\ NoHistory

NextGenerate == GenerateIncident \/ ReturnBatch

SpecGenerate == InitGenerate /\ [][NextGenerate]_vars

---------------------------------------------------------------------------
(* The script from its start to the end of the question/answer section,    *)
(* lines 86-149.  The batch comes from generate_traffic_incidents().       *)

Init ==
    /\ pc = "generate"
    /\ args = <<>>
    /\ num_incidents = bind_num_incidents(args)
    /\ incidents = <<>>
    /\ df_generated = <<>>
    /\ df_traffic = <<>>
    /\ selected_location = <<>>
    /\ NoOverview
    /\ st_out = <<>>
    /\ NoQA
    /\ exc = "none"
    /\ NoHistory

Next ==
    \/ GenerateIncident
    \/ ReturnBatch
    \/ SelectLocation
    \/ FilterLocation
    \/ Overview
    \/ AskQuestion
    \/ BuildPrompt
    \/ InvokeModel
    \/ ReadResponse
    \/ WriteAnswer

Spec == Init /\ [][Next]_vars

---------------------------------------------------------------------------
(* The history and prediction sections, lines 151-192, which read nothing  *)
(* the earlier sections computed.                                          *)

InitHistory ==
    /\ pc = "history"
    /\ args = <<>>
    /\ num_incidents = bind_num_incidents(args)
    /\ incidents = <<>>
    /\ df_generated = <<>>
    /\ df_traffic = <<>>
    /\ selected_location = All
    /\ NoOverview
    /\ st_out = <<>>
    /\ NoQA
    /\ exc = "none"
    /\ NoHistory

NextHistory == SelectDateRange \/ GenerateHistory \/ Predict

SpecHistory == InitHistory /\ [][NextHistory]_vars

---------------------------------------------------------------------------
(* The location filter on the batches generate_traffic_incidents(n) can    *)
(* return for n in 0..MaxFilterRows, over three locations; "T Nagar"       *)
(* occurs inside "Besant Nagar".                                           *)

MaxFilterRows == 3

Lists(rows, n) == UNION {[1..k -> rows] : k \in 0..n}

FilterRows ==
    [type   : {"Congestion"},
     from   : {chennai_locations[1], chennai_locations[2], chennai_locations[18]},
     to     : {chennai_locations[1], chennai_locations[2], chennai_locations[18]},
     delay  : {delay_low},
     length : {length_low}]

\* The script at line 93, generate_traffic_incidents(Len(list)) having
\* returned list.
AfterGenerate(list, at) ==
    /\ pc = at
    /\ args = <<Len(list)>>
    /\ num_incidents = Len(list)
    /\ incidents = list
    /\ df_generated = DataFrame(list)
    /\ df_traffic = DataFrame(list)
    /\ NoOverview
    /\ st_out = <<>>
    /\ NoQA
    /\ exc = "none"
    /\ NoHistory

InitFilter ==
    /\ \E list \in Lists(FilterRows, MaxFilterRows) : AfterGenerate(list, "select")
    /\ selected_location = <<>>

NextFilter == SelectLocation \/ FilterLocation

SpecFilter == InitFilter /\ [][NextFilter]_vars

---------------------------------------------------------------------------
(* The filter and the overview on batches drawn for the statistics (up to  *)
(* MaxSummaryRows rows, three delays, two lengths, two locations) and for  *)
(* the ranking (up to MaxRankRows rows, more than top_n, two delays).      *)

MaxSummaryRows == 3
MaxRankRows == 11

SummaryRows ==
    [type   : {"Accident"},
     from   : {chennai_locations[2], chennai_locations[6]},
     to     : {chennai_locations[6]},
     delay  : {100, 200, 300},
     length : {length_low, length_high - 1}]

RankRows ==
    [type   : {"Event"},
     from   : {chennai_locations[2]},
     to     : {chennai_locations[6]},
     delay  : {100, 300},
     length : {length_low}]

InitOverview ==
    \/ /\ \E list \in Lists(SummaryRows, MaxSummaryRows) :
             AfterGenerate(list, "filter")
       /\ selected_location \in {All, chennai_locations[2]}
    \/ /\ \E list \in Lists(RankRows, MaxRankRows) :
             AfterGenerate(list, "filter")
       /\ selected_location = All

NextOverview == FilterLocation \/ Overview

SpecOverview == InitOverview /\ [][NextOverview]_vars

---------------------------------------------------------------------------
(* Properties.                                                             *)

UpperCase == <<"A","B","C","D","E","F","G","H","I","J","K","L","M",
           "N","O","P","Q","R","S","T","U","V","W","X","Y","Z">>
LowerCase == <<"a","b","c","d","e","f","g","h","i","j","k","l","m",
           "n","o","p","q","r","s","t","u","v","w","x","y","z">>

\* The letter of LowerCase at the place c has in UpperCase; c itself when
\* c is no capital letter.
FoldTable ==
    [c \in Range(UpperCase) \cup Range(LowerCase) \cup {" "} |->
        IF \E k \in 1..26 : UpperCase[k] = c
        THEN LowerCase[CHOOSE k \in 1..26 : UpperCase[k] = c]
        ELSE c]

Folded(t) == [k \in 1..Len(t) |-> FoldTable[t[k]]]

\* needle is a contiguous part of hay, case aside.
OccursIn(needle, hay) ==
    \E i \in 1..(Len(hay) - Len(needle) + 1) :
        Folded(SubSeq(hay, i, i + Len(needle) - 1)) = Folded(needle)

Involves(row, location) ==
    OccursIn(location, row.from) \/ OccursIn(location, row.to)

RECURSIVE SumTo(_, _, _)
SumTo(df, col, n) == IF n = 0 THEN 0 ELSE SumTo(df, col, n - 1) + df[n][col]

Min(a, b) == IF a < b THEN a ELSE b

RowInRange(r) ==
    /\ r.type \in {"Congestion", "Accident", "Construction", "Event"}
    /\ r.from \in Range(chennai_locations)
    /\ r.to \in Range(chennai_locations)
    /\ r.delay \in Int /\ 60 <= r.delay /\ r.delay < 1800
    /\ r.length \in Int /\ 100 <= r.length /\ r.length < 5000

\* The script is past the overview.
AfterOverview ==
    pc \in {"question", "prompt", "invoke", "read", "write", "history",
            "crashed"}

StatNames == {"total_incidents", "avg_delay", "total_affected_length",
              "top_affected"}

\* C1 (as claimed): once the prompt step has run for a non-empty question,
\* a prompt exists and holds the question verbatim, and if the statistics
\* were never assigned (empty filtered batch) the step did not fail and the
\* prompt holds the placeholder "N/A" for each of the three statistics.
C1_PromptWithoutStatistics ==
    (pc \in {"invoke", "read", "write", "history", "crashed"}
        /\ user_question # "") =>
        /\ \E i \in 1..Len(prompt) : prompt[i] = user_question
        /\ (StatNames \cap locals = {}) =>
              /\ exc = "none"
              /\ Cardinality({i \in 1..Len(prompt) : prompt[i] = "N/A"}) >= 3

\* C2 (as claimed): a cycle with a non-empty question never ends without
\* the answer written to the page: at the end of the question/answer
\* section, or where the script stopped, the last thing written is the
\* answer and no exception ended the script.
C2_AnswerAlwaysWritten ==
    (user_question # "" /\ pc \in {"history", "crashed"}) =>
        /\ exc = "none"
        /\ Len(st_out) > 0
        /\ st_out[Len(st_out)].widget = "write"
        /\ st_out[Len(st_out)].body = answer

\* The exception get_traffic_insights handled in this call, if any.
C3_Raised ==
    \/ bedrock.outcome.kind \in {"invoke_raises", "read_raises"}
    \/ /\ bedrock.outcome.kind = "body"
       /\ "generation" \in DOMAIN bedrock.outcome.body
       /\ ~bedrock.outcome.body.generation.str

\* C3: get_traffic_insights never lets an error out: while it runs and
\* when it has returned no exception has ended the script; it calls the
\* model at most once; and when the call, the read or the parse raised, what
\* it returns starts with the readable prefix and holds the error's message
\* and, after "Full error: ", its repr (type and message).
C3_ErrorsBecomeText ==
    /\ bedrock.calls <= 1
    /\ pc \in {"invoke", "read", "write"} => exc = "none"
    /\ pc \in {"read", "write"} => bedrock.calls = 1
    /\ (pc = "write" /\ C3_Raised) =>
          LET e == bedrock.outcome.e IN
          /\ answer[1] = "Error getting traffic insights: "
          /\ answer[2] = e.msg
          /\ \E j \in 3..Len(answer) :
                /\ answer[j] = "\nFull error: "
                /\ \E k \in (j + 1)..Len(answer) : answer[k] = e.type
                /\ \E k \in (j + 1)..Len(answer) : answer[k] = e.msg

C3_Witness ==
    /\ pc = "write"
    /\ bedrock.outcome.kind = "invoke_raises"
    /\ bedrock.calls = 1
    /\ Len(answer) > 0

\* The history step has run on a two-date range whose end precedes its start.
C4_ReversedRangeRun ==
    /\ pc \in {"predict", "done", "crashed"}
    /\ Len(date_range) = 2
    /\ date_range[2] < date_range[1]

C5_GeneratedBatch ==
    /\ Len(incidents) <= num_incidents
    /\ \A i \in 1..Len(incidents) : RowInRange(incidents[i])
    /\ pc = "select" =>
          /\ Len(df_generated) = (IF Len(args) = 0 THEN 50 ELSE args[1])
          /\ \A i \in 1..Len(df_generated) : RowInRange(df_generated[i])

C5_Witness ==
    /\ pc = "select"
    /\ Len(args) = 0
    /\ Len(df_generated) = 50
    /\ df_generated[50].delay = 1799
    /\ df_generated[50].length = 4999
    /\ df_generated[50].from = df_generated[50].to

\* C6: after the filter, with "All" selected the batch is the generated
\* batch; otherwise it holds, in the generated order, exactly the generated
\* rows whose from or to contains the selected location, case aside; the
\* filter raises nothing, also when no row matches.
C6_FilterKeepsExactlyMatches ==
    pc = "overview" =>
        /\ exc = "none"
        /\ IF selected_location = All
           THEN df_traffic = df_generated
           ELSE /\ \A k \in 1..Len(df_traffic) :
                      /\ \E i \in 1..Len(df_generated) :
                            df_generated[i] = df_traffic[k]
                      /\ Involves(df_traffic[k], selected_location)
                /\ \A i \in 1..Len(df_generated) :
                      Involves(df_generated[i], selected_location) =>
                          \E k \in 1..Len(df_traffic) :
                              df_traffic[k] = df_generated[i]
                /\ \A k \in 1..(Len(df_traffic) - 1) :
                      df_traffic[k].idx < df_traffic[k + 1].idx

\* "T Nagar" selected: a row from "Besant Nagar" to "Adyar" is kept, and a
\* row from "Adyar" to "Adyar" is dropped.
C6_Witness ==
    /\ pc = "overview"
    /\ selected_location = chennai_locations[1]
    /\ \E k \in 1..Len(df_traffic) :
          /\ df_traffic[k].from = chennai_locations[18]
          /\ df_traffic[k].to = chennai_locations[2]
    /\ \E i \in 1..Len(df_generated) :
          /\ df_generated[i].from = chennai_locations[2]
          /\ df_generated[i].to = chennai_locations[2]
    /\ Len(df_traffic) = 2
    /\ Len(df_generated) = 3

\* Position in the batch of the k-th ranked row.
C7_Pos(k) ==
    CHOOSE i \in 1..Len(df_traffic) : df_traffic[i].idx = top_affected[k].idx

\* C7: the ranking of a non-empty batch has min(10, len) rows, each a row
\* of the batch and no row twice, in non-increasing delay, equal delays in
\* batch order; a row left out has no greater delay than any row included,
\* and comes later in the batch than every included row of its delay.
C7_TopAffected ==
    (pc = "question" /\ Len(df_traffic) > 0) =>
        LET n == Len(top_affected)
            d(i) == df_traffic[i].delay
            ranked == {C7_Pos(k) : k \in 1..n}
        IN  /\ "top_affected" \in locals
            /\ n = Min(10, Len(df_traffic))
            /\ \A k \in 1..n :
                  /\ \E i \in 1..Len(df_traffic) :
                        df_traffic[i].idx = top_affected[k].idx
                  /\ top_affected[k].from = df_traffic[C7_Pos(k)].from
                  /\ top_affected[k].to = df_traffic[C7_Pos(k)].to
                  /\ top_affected[k].type = df_traffic[C7_Pos(k)].type
            /\ \A k1 \in 1..n : \A k2 \in (k1 + 1)..n :
                  /\ C7_Pos(k1) # C7_Pos(k2)
                  /\ d(C7_Pos(k1)) >= d(C7_Pos(k2))
                  /\ d(C7_Pos(k1)) = d(C7_Pos(k2)) => C7_Pos(k1) < C7_Pos(k2)
            /\ \A i \in (1..Len(df_traffic)) \ ranked : \A k \in 1..n :
                  /\ d(i) <= d(C7_Pos(k))
                  /\ d(i) = d(C7_Pos(k)) => i > C7_Pos(k)

\* Eleven rows, delays 300, 100, 300, ...: ten are ranked, row 0 before row
\* 2, and the row left out has the delay of the last row ranked.
C7_Witness ==
    /\ pc = "question"
    /\ Len(df_traffic) = 11
    /\ Len(top_affected) = 10
    /\ df_traffic[1].delay = 300
    /\ df_traffic[2].delay = 100
    /\ df_traffic[3].delay = 300
    /\ top_affected[1].idx = 0
    /\ top_affected[2].idx = 2
    /\ df_traffic[11].delay = 100
    /\ top_affected[10].idx = 9
    /\ df_traffic[10].delay = 100

\* C8: with an empty filtered batch the overview binds none of the
\* statistics, writes the no-data warning and no average, and raises
\* nothing.
C8_EmptyBatchNoAverage ==
    (AfterOverview /\ Len(df_traffic) = 0) =>
        /\ StatNames \cap locals = {}
        /\ Len(st_out) >= 1
        /\ st_out[1].widget = "warning"
        /\ \A i \in 1..Len(st_out) :
              st_out[i].widget = "write" =>
                  st_out[i].body[1] # "Average delay: "
        /\ pc = "question" => exc = "none"

C8_Witness ==
    /\ pc = "question"
    /\ Len(df_traffic) = 0
    /\ Len(df_generated) = 50
    /\ Len(st_out) = 1
    /\ st_out[1].widget = "warning"

\* The history step has run on a two-date range with start <= end.
C9_ForwardRangeRun ==
    /\ pc \in {"predict", "done", "crashed"}
    /\ Len(date_range) = 2
    /\ date_range[1] <= date_range[2]

\* C9: the series of a range start <= end has (end - start) + 1 points,
\* the first dated start, the last dated end, each one day after the one
\* before, every incident count an integer of 10..99.
C9_HistorySeries ==
    C9_ForwardRangeRun =>
        /\ exc = "none"
        /\ Len(hist_df) = (date_range[2] - date_range[1]) + 1
        /\ hist_df[1].date = date_range[1]
        /\ hist_df[Len(hist_df)].date = date_range[2]
        /\ \A i \in 1..(Len(hist_df) - 1) :
              hist_df[i + 1].date = hist_df[i].date + 1
        /\ \A i \in 1..Len(hist_df) :
              /\ hist_df[i].incidents \in Int
              /\ 10 <= hist_df[i].incidents
              /\ hist_df[i].incidents < 100

C9_Witness ==
    /\ pc = "predict"
    /\ date_range = <<1, 4>>
    /\ Len(hist_df) = 4
    /\ hist_df[1].incidents = 10
    /\ hist_df[4].incidents = 99
    /\ hist_df[2].avg_delay < 0

\* The statistics of a non-empty batch, once the overview has run.
C10_Statistics ==
    (pc = "question" /\ Len(df_traffic) > 0) =>
        /\ {"total_incidents", "avg_delay", "total_affected_length"}
              \subseteq locals
        /\ total_incidents = Len(df_traffic)
        /\ total_affected_length = SumTo(df_traffic, "length", Len(df_traffic))
        /\ avg_delay.den = total_incidents
        /\ avg_delay.num = SumTo(df_traffic, "delay", Len(df_traffic))
        /\ [i \in 1..Len(df_traffic) |-> df_traffic[i].delay] = <<100, 200, 300>>
              => avg_delay.num = 200 * avg_delay.den

\* C10: for a non-empty batch the count is the number of rows of the
\* filtered batch, the total length the sum of their lengths and the average
\* delay the sum of their delays over the count (delays 100, 200, 300 give
\* 200); and the overview step leaves the batch as it was.
C10_SummaryOfBatch ==
    /\ [](C10_Statistics)
    /\ [][pc = "overview" => df_traffic' = df_traffic]_vars

\* Selecting "Adyar" dropped a row; the two rows left average 250.
C10_Witness ==
    /\ pc = "question"
    /\ selected_location = chennai_locations[2]
    /\ Len(df_generated) = 3
    /\ Len(df_traffic) = 2
    /\ avg_delay = [num |-> 500, den |-> 2]
    /\ total_affected_length = 5099
    /\ total_incidents = 2

===========================================================================
